---- MODULE Spec2Model ----
(***************************************************************************)
(* Model of spacy_experimental/span_finder/span_finder_component.py:       *)
(* the SpanFinder pipe (set_annotations, update, get_loss, _get_reference) *)
(* and the scorer wrapper span_finder_score.                               *)
(*                                                                         *)
(* A Doc is a record [n, spans]: n tokens with indices 0..n-1, and spans a *)
(* function from the keys present in doc.spans to an ordered span group.   *)
(* A span is <<start, end>> (end exclusive).  An Example is a record       *)
(* [predicted, reference] of two Docs.  A score matrix is a sequence of    *)
(* rows <<start score, end score>>; scores and the threshold are integers  *)
(* on a common scale, since only their order and differences matter.       *)
(***************************************************************************)
EXTENDS Integers, Sequences, FiniteSets, TLC

VARIABLES
    threshold,          \* self.threshold
    min_length,         \* self.min_length
    max_length,         \* self.max_length
    examples,           \* the batch: sequence of [predicted, reference]
    op,                 \* the last operation called ("none" before any)
    outcome,            \* "none" | "returned" | "raised" for the last operation
    scores,             \* score matrix of the last operation
    had_prior,          \* docs that held candidates before the last set_annotations
    pre_reference,      \* reference docs as they were when span_finder_score was entered
    reference_results,  \* reference label matrix of the last get_loss
    d_scores,           \* gradient of the last get_loss
    loss,               \* loss of the last get_loss
    losses,             \* the caller's losses mapping
    sgd,                \* whether the last update was given an optimizer
    calls,              \* collaborator calls made by the last update, in order
    losses0,            \* the losses mapping before the first update
    loss_total,         \* sum of the losses computed by the updates so far
    n_updates,          \* number of update calls so far
    losses_passed,      \* whether the last update was passed the caller's mapping
    result,             \* the mapping the last update returned
    n_passed            \* number of update calls passed the caller's mapping

vars == <<threshold, min_length, max_length, examples, op, outcome, scores,
          had_prior, pre_reference, reference_results, d_scores, loss, losses,
          sgd, calls, losses0, loss_total, n_updates, losses_passed, result, n_passed>>

(***************************************************************************)
(* Bounds of the model.                                                    *)
(***************************************************************************)
MaxTokens == 4      \* tokens in a set_annotations batch
MaxLengthCfg == 2   \* min_length and max_length range over 0..MaxLengthCfg
MaxRefTokens == 5   \* tokens in a _get_reference batch
MaxRows == 2        \* rows of the arrays given to the loss arithmetic
MaxTrainLen == 2    \* tokens of the reference doc of a training example
MaxUpdates == 2     \* update calls

(***************************************************************************)
(* Program constants.                                                      *)
(***************************************************************************)
candidates_key == "span_candidates"
reference_key == "sc"
name == "span_finder"

\* Scores and thresholds: a score can be below, at or above a threshold
ScoreVals == {0, 1}
Thresholds == {0, 1}
\* Batches hold one or two documents
BatchSizes == {1, 2}
LengthCfgs == 0..MaxLengthCfg

EmptyMap == [k \in {} |-> <<>>]

Min(a, b) == IF a <= b THEN a ELSE b

RECURSIVE SumSeq(_)
SumSeq(s) == IF s = <<>> THEN 0 ELSE Head(s) + SumSeq(Tail(s))

\* doc.spans[key] = value
SetItem(spans, key, value) ==
    [k \in DOMAIN spans \cup {key} |-> IF k = key THEN value ELSE spans[k]]

\* seq[a:b] of Python, for 0 <= a <= b
Slice(seq, a, b) == SubSeq(seq, Min(a, Len(seq)) + 1, Min(b, Len(seq)))

\* All score matrices of r rows
Matrices(r) == [1..r -> ScoreVals \X ScoreVals]

(***************************************************************************)
(* SpanFinder.set_annotations                                              *)
(***************************************************************************)

\* The indices token.i, in token order, of the tokens whose score in column
\* col reaches the threshold; zip(doc, doc_scores) stops at the shorter one.
RECURSIVE BoundaryIndices(_, _, _, _)
BoundaryIndices(n, doc_scores, col, i) ==
    IF i >= Min(n, Len(doc_scores)) THEN <<>>
    ELSE (IF doc_scores[i + 1][col] >= threshold THEN <<i>> ELSE <<>>)
         \o BoundaryIndices(n, doc_scores, col, i + 1)

\* LengthOk without the test against max_length
LengthOkNoMax(span_length) ==
    min_length <= 0 \/ span_length >= min_length

\* The condition under which a span of positive length is appended
LengthOk(span_length) ==
    /\ (min_length <= 0 \/ span_length >= min_length)
    /\ (max_length <= 0 \/ span_length <= max_length)

\* A break on every rejected span, whatever bound rejected it
BreakOnAnyReject(span_length) == TRUE

\* The elif that leaves the loop over ends
ShouldBreak(span_length) ==
    max_length > 0 /\ span_length > max_length

\* for end in ends: ... from position k on, for one start
RECURSIVE EndsLoop(_, _, _)
EndsLoop(start, ends, k) ==
    IF k > Len(ends) THEN <<>>
    ELSE LET end == ends[k]
             span_length == end + 1 - start
         IN  IF span_length > 0
             THEN IF LengthOk(span_length)
                  THEN <<<<start, end + 1>>>> \o EndsLoop(start, ends, k + 1)
                  ELSE IF ShouldBreak(span_length)
                       THEN <<>>
                       ELSE EndsLoop(start, ends, k + 1)
             ELSE EndsLoop(start, ends, k + 1)

\* for start in starts: ... from position j on
RECURSIVE StartsLoop(_, _, _)
StartsLoop(starts, ends, j) ==
    IF j > Len(starts) THEN <<>>
    ELSE EndsLoop(starts[j], ends, 1) \o StartsLoop(starts, ends, j + 1)

\* A group that is created when absent but not emptied when present
KeepGroup(spans) ==
    IF candidates_key \in DOMAIN spans THEN spans
    ELSE SetItem(spans, candidates_key, <<>>)

\* doc.spans[self.candidates_key] = []
ClearGroup(spans) == SetItem(spans, candidates_key, <<>>)

\* The body of the loop over zip(docs, scores_per_doc) for one doc
AnnotateDoc(doc, doc_scores) ==
    LET cleared == ClearGroup(doc.spans)
        starts == BoundaryIndices(doc.n, doc_scores, 1, 0)
        ends == BoundaryIndices(doc.n, doc_scores, 2, 0)
    IN  [doc EXCEPT !.spans =
            SetItem(cleared, candidates_key,
                    cleared[candidates_key] \o StartsLoop(starts, ends, 1))]

\* offset before the i-th doc (1-based)
Offset(lengths, i) == SumSeq(SubSeq(lengths, 1, i - 1))

ScoresPerDoc(docs, sc) ==
    LET lengths == [i \in 1..Len(docs) |-> docs[i].n]
    IN  [i \in 1..Len(docs) |->
            Slice(sc, Offset(lengths, i), Offset(lengths, i) + lengths[i])]

set_annotations(docs, sc) ==
    LET scores_per_doc == ScoresPerDoc(docs, sc)
    IN  [i \in 1..Len(docs) |-> AnnotateDoc(docs[i], scores_per_doc[i])]

Predicted == [i \in 1..Len(examples) |-> examples[i].predicted]
Reference == [i \in 1..Len(examples) |-> examples[i].reference]

TotalTokens(docs) == SumSeq([i \in 1..Len(docs) |-> docs[i].n])

\* nlp pipe: scores = predict(docs); set_annotations(docs, scores).  A batch
\* goes through the pipe once; what its docs held before is set by the
\* initial state.
SetAnnotations ==
    /\ op = "none"
    /\ \E sc \in Matrices(TotalTokens(Predicted)) :
          LET annotated == set_annotations(Predicted, sc)
          IN  /\ examples' = [i \in 1..Len(examples) |->
                                 [examples[i] EXCEPT !.predicted = annotated[i]]]
              /\ scores' = sc
              /\ had_prior' = {i \in 1..Len(examples) :
                                 /\ candidates_key \in DOMAIN examples[i].predicted.spans
                                 /\ examples[i].predicted.spans[candidates_key] # <<>>}
              /\ op' = "set_annotations"
              /\ outcome' = "returned"
              /\ UNCHANGED <<threshold, min_length, max_length, pre_reference,
                             reference_results, d_scores, loss, losses, sgd, calls,
                             losses0, loss_total, n_updates, losses_passed, result, n_passed>>

\* Fresh documents of the given token counts
FreshDoc(n) == [n |-> n, spans |-> EmptyMap]

\* A document that already went through the pipe once: it holds one stale
\* candidate covering all its tokens
StaleDoc(n) ==
    [n |-> n,
     spans |-> SetItem(EmptyMap, candidates_key,
                       IF n > 0 THEN <<<<0, n>>>> ELSE <<>>)]

LengthLists(maxTotal) ==
    {ls \in UNION {[1..b -> 0..maxTotal] : b \in BatchSizes} : SumSeq(ls) <= maxTotal}

Idle ==
    /\ op = "none"
    /\ outcome = "none"
    /\ scores = <<>>
    /\ had_prior = {}
    /\ pre_reference = <<>>
    /\ reference_results = <<>>
    /\ d_scores = <<>>
    /\ loss = 0
    /\ losses = EmptyMap
    /\ sgd = FALSE
    /\ calls = <<>>
    /\ losses0 = EmptyMap
    /\ loss_total = 0
    /\ n_updates = 0
    /\ losses_passed = FALSE
    /\ result = EmptyMap
    /\ n_passed = 0

Config ==
    /\ threshold \in Thresholds
    /\ min_length \in LengthCfgs
    /\ max_length \in LengthCfgs

InitAnnot ==
    /\ Config
    /\ \E ls \in LengthLists(MaxTokens), stale \in BOOLEAN :
          examples = [i \in 1..Len(ls) |->
                         [predicted |-> IF stale THEN StaleDoc(ls[i]) ELSE FreshDoc(ls[i]),
                          reference |-> FreshDoc(ls[i])]]
    /\ Idle

NextAnnot == SetAnnotations

SpecAnnot == InitAnnot /\ [][NextAnnot]_vars

(***************************************************************************)
(* span_finder_score                                                       *)
(***************************************************************************)

\* eg.reference.spans.get(candidates_key): the group, or None
OrigSpanGroup(doc) ==
    IF candidates_key \in DOMAIN doc.spans
    THEN [is_none |-> FALSE, group |-> doc.spans[candidates_key]]
    ELSE [is_none |-> TRUE, group |-> <<>>]

\* if reference_key in eg.reference.spans: copy it under candidates_key
CopyReference(doc) ==
    IF reference_key \in DOMAIN doc.spans
    THEN [doc EXCEPT !.spans = SetItem(doc.spans, candidates_key,
                                       doc.spans[reference_key])]
    ELSE doc

\* if orig_span_group is not None: put it back
RestoreGroup(doc, orig_span_group) ==
    IF ~orig_span_group.is_none
    THEN [doc EXCEPT !.spans = SetItem(doc.spans, candidates_key,
                                       orig_span_group.group)]
    ELSE doc

\* The reference docs when span_finder_score is left: Scorer.score_spans
\* either returns, and the restoring loop runs, or raises, and the exception
\* leaves the function at the call.
span_finder_score(refs, scorer_raises) ==
    LET orig_span_groups == [i \in 1..Len(refs) |-> OrigSpanGroup(refs[i])]
        copied == [i \in 1..Len(refs) |-> CopyReference(refs[i])]
    IN  IF scorer_raises
        THEN copied
        ELSE [i \in 1..Len(refs) |-> RestoreGroup(copied[i], orig_span_groups[i])]

SpanFinderScore ==
    \E scorer_raises \in BOOLEAN :
        LET after == span_finder_score(Reference, scorer_raises)
        IN  /\ examples' = [i \in 1..Len(examples) |->
                               [examples[i] EXCEPT !.reference = after[i]]]
            /\ pre_reference' = Reference
            /\ op' = "span_finder_score"
            /\ outcome' = IF scorer_raises THEN "raised" ELSE "returned"
            /\ UNCHANGED <<threshold, min_length, max_length, scores, had_prior,
                           reference_results, d_scores, loss, losses, sgd, calls,
                           losses0, loss_total, n_updates, losses_passed, result, n_passed>>

\* Span groups a two-token evaluation document may hold under a key
EvalGroups == {<<>>, <<<<0, 1>>>>, <<<<0, 2>>, <<1, 2>>>>}

EvalSpans ==
    UNION {[D -> EvalGroups] : D \in SUBSET {candidates_key, reference_key}}

InitScore ==
    /\ Config
    /\ threshold = 1 /\ min_length = 0 /\ max_length = 0
    /\ \E b \in BatchSizes :
          \E sp \in [1..b -> EvalSpans] :
              examples = [i \in 1..b |->
                             [predicted |-> FreshDoc(2),
                              reference |-> [n |-> 2, spans |-> sp[i]]]]
    /\ Idle

NextScore == SpanFinderScore

SpecScore == InitScore /\ [][NextScore]_vars

(***************************************************************************)
(* SpanFinder._get_reference                                               *)
(***************************************************************************)

\* start_indices.add(span.start)
SpanStartIndex(span) == span[1]

\* The exclusive end taken for the index of the last token
SpanEndExclusive(span) == span[2]

\* end_indices.add(span.end - 1)
SpanEndIndex(span) == span[2] - 1

ReferenceGroup(doc) ==
    IF reference_key \in DOMAIN doc.spans THEN doc.spans[reference_key] ELSE <<>>

StartIndices(doc) ==
    {SpanStartIndex(ReferenceGroup(doc)[k]) : k \in 1..Len(ReferenceGroup(doc))}

EndIndices(doc) ==
    {SpanEndIndex(ReferenceGroup(doc)[k]) : k \in 1..Len(ReferenceGroup(doc))}

\* for token in doc: reference_results.append((..., ...))
DocReference(doc) ==
    LET start_indices == StartIndices(doc)
        end_indices == EndIndices(doc)
    IN  [t \in 1..doc.n |->
            <<IF (t - 1) \in start_indices THEN 1 ELSE 0,
              IF (t - 1) \in end_indices THEN 1 ELSE 0>>]

\* for doc in docs: ... from the j-th doc on
RECURSIVE ReferenceFrom(_, _)
ReferenceFrom(docs, j) ==
    IF j > Len(docs) THEN <<>>
    ELSE DocReference(docs[j]) \o ReferenceFrom(docs, j + 1)

_get_reference(docs) == ReferenceFrom(docs, 1)

GetReference ==
    /\ op = "none"
    /\ reference_results' = _get_reference(Reference)
    /\ op' = "_get_reference"
    /\ outcome' = "returned"
    /\ UNCHANGED <<threshold, min_length, max_length, examples, scores, had_prior,
                   pre_reference, d_scores, loss, losses, sgd, calls, losses0,
                   loss_total, n_updates, losses_passed, result, n_passed>>

\* The spans [a, b) of an n-token document
SpansOf(n) == {sp \in (0..n) \X (0..n) : sp[1] < sp[2]}

\* Gold groups of at most two spans
GoldGroups(n) ==
    {<<>>} \cup {<<sp>> : sp \in SpansOf(n)}
           \cup {<<s1, s2>> : s1 \in SpansOf(n), s2 \in SpansOf(n)}

GoldSpans(n) ==
    {EmptyMap} \cup {SetItem(EmptyMap, reference_key, g) : g \in GoldGroups(n)}

\* Reference documents of n tokens
GoldDocs(n) == {[n |-> n, spans |-> sp] : sp \in GoldSpans(n)}

\* Batches of reference documents of the given token counts
RECURSIVE GoldBatches(_)
GoldBatches(ls) ==
    IF ls = <<>> THEN {<<>>}
    ELSE {<<d>> \o rest : d \in GoldDocs(Head(ls)), rest \in GoldBatches(Tail(ls))}

InitReference ==
    /\ Config
    /\ threshold = 1 /\ min_length = 0 /\ max_length = 0
    /\ \E ls \in LengthLists(MaxRefTokens) :
          \E refs \in GoldBatches(ls) :
              examples = [i \in 1..Len(ls) |->
                             [predicted |-> FreshDoc(ls[i]), reference |-> refs[i]]]
    /\ Idle

NextReference == GetReference

SpecReference == InitReference /\ [][NextReference]_vars

(***************************************************************************)
(* SpanFinder.get_loss                                                     *)
(***************************************************************************)

\* Row r of an array of `rows` rows broadcast against another array: an
\* array of one row lends that row to every row of the result
BroadcastRow(a, r) == IF Len(a) = 1 THEN a[1] ELSE a[r]

\* numpy accepts two (rows, 2) arrays of equal row counts, or one of them
\* of a single row
Broadcastable(a, b) == Len(a) = Len(b) \/ Len(a) = 1 \/ Len(b) = 1

BroadcastRows(a, b) ==
    IF Len(a) = Len(b) THEN Len(a) ELSE IF Len(a) = 1 THEN Len(b) ELSE Len(a)

\* The derivative 2 * (scores - reference_results) of the squared error
DoubledDifference(sc, ref) ==
    [r \in 1..BroadcastRows(sc, ref) |->
        <<2 * (BroadcastRow(sc, r)[1] - BroadcastRow(ref, r)[1]),
          2 * (BroadcastRow(sc, r)[2] - BroadcastRow(ref, r)[2])>>]

\* d_scores = scores - reference_results
Difference(sc, ref) ==
    [r \in 1..BroadcastRows(sc, ref) |->
        <<BroadcastRow(sc, r)[1] - BroadcastRow(ref, r)[1],
          BroadcastRow(sc, r)[2] - BroadcastRow(ref, r)[2]>>]

\* float((d_scores**2).sum())
SumSquares(d) ==
    SumSeq([r \in 1..Len(d) |-> d[r][1] * d[r][1] + d[r][2] * d[r][2]])

\* Lines 269-271 on the score array and the reference array
LossAndGradient(sc, ref) ==
    LET d == Difference(sc, ref)
    IN  [loss |-> SumSquares(d), d_scores |-> d]

\* get_loss(examples, scores), where the subtraction is defined
get_loss(egs, sc) ==
    LossAndGradient(sc, _get_reference([i \in 1..Len(egs) |-> egs[i].reference]))

\* The arithmetic of get_loss applied to a score array and a reference array
\* of the same shape
ComputeLoss ==
    /\ op = "none"
    /\ LET r == LossAndGradient(scores, reference_results)
       IN  /\ loss' = r.loss
           /\ d_scores' = r.d_scores
    /\ op' = "get_loss"
    /\ outcome' = "returned"
    /\ UNCHANGED <<threshold, min_length, max_length, examples, scores, had_prior,
                   pre_reference, reference_results, losses, sgd, calls, losses0,
                   loss_total, n_updates, losses_passed, result, n_passed>>

\* Scores of the regression: any real is allowed; 2 stands for a value whose
\* distance to a label exceeds 1
LossScoreVals == {0, 1, 2}
Labels == {0, 1}

InitLoss ==
    /\ Config
    /\ threshold = 1 /\ min_length = 0 /\ max_length = 0
    /\ examples = <<>>
    /\ op = "none"
    /\ outcome = "none"
    /\ \E rows \in 0..MaxRows :
          /\ scores \in [1..rows -> LossScoreVals \X LossScoreVals]
          /\ reference_results \in [1..rows -> Labels \X Labels]
    /\ had_prior = {}
    /\ pre_reference = <<>>
    /\ d_scores = <<>>
    /\ loss = 0
    /\ losses = EmptyMap
    /\ sgd = FALSE
    /\ calls = <<>>
    /\ losses0 = EmptyMap
    /\ loss_total = 0
    /\ n_updates = 0
    /\ losses_passed = FALSE
    /\ result = EmptyMap
    /\ n_passed = 0

NextLoss == ComputeLoss

SpecLoss == InitLoss /\ [][NextLoss]_vars

(***************************************************************************)
(* SpanFinder.update                                                       *)
(***************************************************************************)

\* losses.setdefault(self.name, 0.0)
SetDefault(mapping, key, value) ==
    IF key \in DOMAIN mapping THEN mapping ELSE SetItem(mapping, key, value)

\* losses[self.name] = loss
OverwriteLoss(mapping, l) == SetItem(mapping, name, l)

\* losses[self.name] += loss
AddLoss(mapping, l) == SetItem(mapping, name, mapping[name] + l)

Call(fn, arg) == [fn |-> fn, arg |-> arg]

\* The collaborator calls of an update that runs to its return, in order
CompletedCalls(d, with_sgd) ==
    <<Call("begin_update", <<>>), Call("get_loss", <<>>),
      Call("backprop_scores", d)>>
    \o (IF with_sgd THEN <<Call("finish_update", <<>>)>> ELSE <<>>)

\* update(examples, sgd=..., losses=...): sc is what model.begin_update
\* returns for the predicted docs, pass_losses whether the caller passes its
\* mapping (otherwise losses is None and a new dict is made).  When numpy
\* cannot broadcast scores against the reference array, get_loss raises and
\* the exception leaves update.
Update ==
    /\ n_updates < MaxUpdates
    /\ \E sc \in Matrices(TotalTokens(Predicted)),
          with_sgd \in BOOLEAN, pass_losses \in BOOLEAN :
          LET arg == IF pass_losses THEN losses ELSE EmptyMap
              defaulted == SetDefault(arg, name, 0)
              ref == _get_reference(Reference)
              ok == Broadcastable(sc, ref)
              r == get_loss(examples, sc)
              final == IF ok THEN AddLoss(defaulted, r.loss) ELSE defaulted
          IN  /\ scores' = sc
              /\ reference_results' = ref
              /\ sgd' = with_sgd
              /\ losses_passed' = pass_losses
              /\ op' = "update"
              /\ n_updates' = n_updates + 1
              /\ n_passed' = IF pass_losses THEN n_passed + 1 ELSE n_passed
              /\ losses' = IF pass_losses THEN final ELSE losses
              /\ IF ok
                 THEN /\ outcome' = "returned"
                      /\ d_scores' = r.d_scores
                      /\ loss' = r.loss
                      /\ calls' = CompletedCalls(r.d_scores, with_sgd)
                      /\ result' = final
                      /\ loss_total' = IF pass_losses THEN loss_total + r.loss
                                       ELSE loss_total
                 ELSE /\ outcome' = "raised"
                      /\ d_scores' = <<>>
                      /\ loss' = 0
                      /\ calls' = <<Call("begin_update", <<>>), Call("get_loss", <<>>)>>
                      /\ result' = EmptyMap
                      /\ loss_total' = loss_total
              /\ UNCHANGED <<threshold, min_length, max_length, examples, had_prior,
                             pre_reference, losses0>>

\* Gold groups of a training document of n tokens
TrainGroups(n) == {<<<<0, n>>>>, <<<<0, 1>>>>}

TrainSpans(n) ==
    {EmptyMap} \cup {SetItem(EmptyMap, reference_key, g) : g \in TrainGroups(n)}

\* Token counts of the predicted docs of the training examples
PredictedLengths == {1, 2}

\* An Example pairs a predicted Doc with a reference Doc; spaCy tokenizes the
\* two independently, so their token counts need not agree.  Training docs
\* hold at least one token.
TrainExamples ==
    UNION {{[predicted |-> FreshDoc(np), reference |-> [n |-> nr, spans |-> sp]] :
               np \in PredictedLengths, sp \in TrainSpans(nr)} :
           nr \in 1..MaxTrainLen}

\* Batches of one example, and of two examples of one predicted token each
SingleBatches == {<<e>> : e \in TrainExamples}

TrainBatches ==
    SingleBatches
    \cup {<<e1, e2>> : e1 \in {e \in TrainExamples : e.predicted.n = 1},
                       e2 \in {e \in TrainExamples : e.predicted.n = 1}}

\* The caller's losses mapping before the first update
InitialLosses ==
    {EmptyMap, [ner |-> 5], [ner |-> 5, span_finder |-> 1]}

Untrained ==
    /\ losses \in InitialLosses
    /\ losses0 = losses
    /\ op = "none"
    /\ outcome = "none"
    /\ scores = <<>>
    /\ had_prior = {}
    /\ pre_reference = <<>>
    /\ reference_results = <<>>
    /\ d_scores = <<>>
    /\ loss = 0
    /\ sgd = FALSE
    /\ calls = <<>>
    /\ loss_total = 0
    /\ n_updates = 0
    /\ losses_passed = FALSE
    /\ result = EmptyMap
    /\ n_passed = 0

InitTrain ==
    /\ Config
    /\ threshold = 1 /\ min_length = 0 /\ max_length = 0
    /\ examples \in TrainBatches
    /\ Untrained

\* Training on batches of a single example
InitAccumulate ==
    /\ Config
    /\ threshold = 1 /\ min_length = 0 /\ max_length = 0
    /\ examples \in SingleBatches
    /\ Untrained

NextTrain == Update

SpecTrain == InitTrain /\ [][NextTrain]_vars

SpecAccumulate == InitAccumulate /\ [][NextTrain]_vars

(***************************************************************************)
(* Claims about set_annotations.                                           *)
(***************************************************************************)

\* Row of the batch score matrix that belongs to token t of the i-th doc
RowOf(i, t) == SumSeq([j \in 1..(i - 1) |-> examples[j].predicted.n]) + t + 1

\* Tokens of the i-th doc whose start (col 1) or end (col 2) score is at or
\* above the threshold
AtThreshold(i, col) ==
    {t \in 0..(examples[i].predicted.n - 1) : scores[RowOf(i, t)][col] >= threshold}

Candidates(i) == examples[i].predicted.spans[candidates_key]

Annotated == op = "set_annotations" /\ outcome = "returned"

\* C1: after set_annotations every candidate span of every document has
\* length > 0, length >= min_length when min_length is nonzero, and
\* length <= max_length when max_length is nonzero.
C1_CandidateLengthsWithinBounds ==
    Annotated =>
        \A i \in 1..Len(examples) :
            /\ candidates_key \in DOMAIN examples[i].predicted.spans
            /\ \A k \in 1..Len(Candidates(i)) :
                  LET span == Candidates(i)[k]
                      length == span[2] - span[1]
                  IN  /\ length > 0
                      /\ (min_length # 0 => length >= min_length)
                      /\ (max_length # 0 => length <= max_length)

\* Both bounds are set, a span was emitted, and pairs at threshold were
\* rejected for being too short and for being too long.
C1_Witness ==
    /\ Annotated
    /\ min_length > 1
    /\ max_length > 0
    /\ \E i \in 1..Len(examples) :
          /\ Candidates(i) # <<>>
          /\ \E s \in AtThreshold(i, 1), e \in AtThreshold(i, 2) :
                e + 1 - s > max_length
          /\ \E s \in AtThreshold(i, 1), e \in AtThreshold(i, 2) :
                e + 1 - s > 0 /\ e + 1 - s < min_length

\* All (start, end) token pairs of an n-token doc, start ascending, then end
\* ascending
AllPairs(n) == [k \in 1..(n * n) |-> <<(k - 1) \div n, (k - 1) % n>>]

\* The full cross product without the early exit, for the i-th doc
CrossProduct(i) ==
    LET starts == AtThreshold(i, 1)
        ends == AtThreshold(i, 2)
        keep(p) ==
            /\ p[1] \in starts
            /\ p[2] \in ends
            /\ p[2] + 1 - p[1] > 0
            /\ (min_length = 0 \/ p[2] + 1 - p[1] >= min_length)
            /\ (max_length = 0 \/ p[2] + 1 - p[1] <= max_length)
        kept == SelectSeq(AllPairs(examples[i].predicted.n), keep)
    IN  [k \in 1..Len(kept) |-> <<kept[k][1], kept[k][2] + 1>>]

\* starts {0, 2} and ends {1, 3} on a document of four tokens
IsSpecExample(i) ==
    /\ examples[i].predicted.n = 4
    /\ AtThreshold(i, 1) = {0, 2}
    /\ AtThreshold(i, 2) = {1, 3}
    /\ min_length = 0

\* C2: the candidates written by set_annotations, with its break once
\* max_length is exceeded, are element for element and in order the full
\* cross product (start ascending, end ascending) filtered by length > 0 and
\* the min/max bounds; no pair appears twice; starts {0,2}, ends {1,3} give
\* [0,2),[0,4),[2,4) unbounded and [0,2),[2,4) with max_length = 2.
C2_EarlyExitEqualsCrossProduct ==
    Annotated =>
        \A i \in 1..Len(examples) :
            /\ Candidates(i) = CrossProduct(i)
            /\ Cardinality({Candidates(i)[k] : k \in 1..Len(Candidates(i))})
                  = Len(Candidates(i))
            /\ (IsSpecExample(i) /\ max_length = 0
                  => Candidates(i) = <<<<0, 2>>, <<0, 4>>, <<2, 4>>>>)
            /\ (IsSpecExample(i) /\ max_length = 2
                  => Candidates(i) = <<<<0, 2>>, <<2, 4>>>>)

\* The example with max_length = 2: the loop over ends is left at (0, 3).
C2_Witness ==
    /\ Annotated
    /\ max_length = 2
    /\ \E i \in 1..Len(examples) :
          IsSpecExample(i) /\ Candidates(i) = <<<<0, 2>>, <<2, 4>>>>

\* C6: a document with no token at threshold for start, or none for end, is
\* left with a candidates_key group that is present and empty, also when it
\* held candidates before the call.
C6_NoBoundaryGivesEmptyGroup ==
    Annotated =>
        \A i \in 1..Len(examples) :
            (AtThreshold(i, 1) = {} \/ AtThreshold(i, 2) = {})
                => /\ candidates_key \in DOMAIN examples[i].predicted.spans
                   /\ Candidates(i) = <<>>

\* A document that held a candidate before the call has start tokens but no
\* end token at threshold, and its group is now empty.
C6_Witness ==
    /\ Annotated
    /\ \E i \in had_prior :
          /\ AtThreshold(i, 1) # {}
          /\ AtThreshold(i, 2) = {}
          /\ Candidates(i) = <<>>

(***************************************************************************)
(* Claims about span_finder_score.                                         *)
(***************************************************************************)

Scored == op = "span_finder_score"

\* C3: after span_finder_score returns normally, every reference document's
\* candidates_key group is what it was before the call: the original group is
\* back if one existed, and the key is absent again if none existed.
C3_CandidatesKeyRestoredOnReturn ==
    (Scored /\ outcome = "returned") =>
        \A i \in 1..Len(examples) :
            LET before == pre_reference[i].spans
                after == examples[i].reference.spans
            IN  IF candidates_key \in DOMAIN before
                THEN /\ candidates_key \in DOMAIN after
                     /\ after[candidates_key] = before[candidates_key]
                ELSE candidates_key \notin DOMAIN after

\* C4: when Scorer.score_spans fails inside span_finder_score, every
\* reference document's span collections are in their pre-call state on the
\* failing exit.
C4_ReferenceRestoredOnFailure ==
    (Scored /\ outcome = "raised") =>
        \A i \in 1..Len(examples) :
            examples[i].reference.spans = pre_reference[i].spans

(***************************************************************************)
(* Claims about _get_reference.                                            *)
(***************************************************************************)

\* Row of the reference matrix that belongs to token t of the i-th doc
RefRowOf(i, t) == SumSeq([j \in 1..(i - 1) |-> examples[j].reference.n]) + t + 1

Flag(b) == IF b THEN 1 ELSE 0

\* The label row the claim gives token t of the i-th reference doc
ExpectedLabels(i, t) ==
    LET doc == examples[i].reference
        has == reference_key \in DOMAIN doc.spans
    IN  <<Flag(has /\ \E k \in 1..Len(doc.spans[reference_key]) :
                          doc.spans[reference_key][k][1] = t),
          Flag(has /\ \E k \in 1..Len(doc.spans[reference_key]) :
                          doc.spans[reference_key][k][2] - 1 = t)>>

IsGoldExample ==
    /\ Len(examples) = 1
    /\ examples[1].reference.n = 5
    /\ examples[1].reference.spans = SetItem(EmptyMap, reference_key, <<<<1, 3>>>>)

\* C7: _get_reference returns one row per token, in document order then
\* token order; the row of token i is (1 iff i starts a span of the
\* reference_key group, 1 iff i is end-1 of a span of that group); a document
\* without the group gives all-zero rows; gold span [1,3) on five tokens gives
\* (0,0),(1,0),(0,1),(0,0),(0,0).
C7_ReferenceLabels ==
    op = "_get_reference" =>
        /\ Len(reference_results)
             = SumSeq([i \in 1..Len(examples) |-> examples[i].reference.n])
        /\ \A i \in 1..Len(examples) :
              \A t \in 0..(examples[i].reference.n - 1) :
                  reference_results[RefRowOf(i, t)] = ExpectedLabels(i, t)
        /\ (IsGoldExample =>
              reference_results = <<<<0, 0>>, <<1, 0>>, <<0, 1>>, <<0, 0>>, <<0, 0>>>>)

\* The labels of the gold span [1,3) on a five-token document were built.
C7_Witness ==
    /\ op = "_get_reference"
    /\ IsGoldExample
    /\ reference_results = <<<<0, 0>>, <<1, 0>>, <<0, 1>>, <<0, 0>>, <<0, 0>>>>

(***************************************************************************)
(* Claims about get_loss.                                                  *)
(***************************************************************************)

\* Squared difference of scores and reference at entry e = <<row, column>>
SquaredError(e) ==
    (scores[e[1]][e[2]] - reference_results[e[1]][e[2]])
    * (scores[e[1]][e[2]] - reference_results[e[1]][e[2]])

\* Sum of the squared differences over a set of entries
RECURSIVE SquaredErrorOver(_)
SquaredErrorOver(S) ==
    IF S = {} THEN 0
    ELSE LET e == CHOOSE y \in S : TRUE
         IN  SquaredError(e) + SquaredErrorOver(S \ {e})

IsLossExample ==
    /\ scores = <<<<1, 0>>, <<0, 1>>>>
    /\ reference_results = <<<<1, 0>>, <<0, 0>>>>

\* C8: for scores and reference of the same shape, the gradient is
\* scores - reference entry by entry and the loss is the sum over all entries
\* of the squared gradient; scores [[1,0],[0,1]] and reference [[1,0],[0,0]]
\* give loss 1 and gradient [[0,0],[0,1]].
C8_SquaredErrorLoss ==
    op = "get_loss" =>
        LET entries == (1..Len(scores)) \X {1, 2}
        IN  /\ Len(d_scores) = Len(scores)
            /\ \A e \in entries :
                  d_scores[e[1]][e[2]]
                    = scores[e[1]][e[2]] - reference_results[e[1]][e[2]]
            /\ loss = SquaredErrorOver(entries)
            /\ (IsLossExample =>
                  loss = 1 /\ d_scores = <<<<0, 0>>, <<0, 1>>>>)

\* The loss of the example was computed.
C8_Witness ==
    /\ op = "get_loss"
    /\ IsLossExample
    /\ loss = 1
    /\ d_scores = <<<<0, 0>>, <<0, 1>>>>

(***************************************************************************)
(* Claims about update.                                                    *)
(***************************************************************************)

\* The (document, token) each row stands for when the rows of a batch are
\* laid out document by document, token by token
RECURSIVE RowKeys(_, _)
RowKeys(docs, j) ==
    IF j > Len(docs) THEN <<>>
    ELSE [t \in 1..docs[j].n |-> <<j, t - 1>>] \o RowKeys(docs, j + 1)

\* C5: in update/get_loss the score matrix (from the predicted documents) and
\* the reference label matrix (from the reference documents) have the same
\* number of rows, and row r of both refers to the same example and the same
\* token index.
C5_RowsAligned ==
    op = "update" =>
        /\ Len(scores) = Len(reference_results)
        /\ \A r \in 1..Len(scores) :
              /\ r <= Len(RowKeys(Reference, 1))
              /\ RowKeys(Predicted, 1)[r] = RowKeys(Reference, 1)[r]

\* C9: after any sequence of update calls passed the same losses mapping,
\* losses[name] is its value before the first call (0 if it was absent, and
\* the entry is created) plus the sum of the losses of those calls, and every
\* entry under another key is unchanged.
C9_LossesAccumulate ==
    /\ \A k \in (DOMAIN losses \cup DOMAIN losses0) \ {name} :
          /\ k \in DOMAIN losses
          /\ k \in DOMAIN losses0
          /\ losses[k] = losses0[k]
    /\ (n_passed = 0 => losses = losses0)
    /\ (n_passed > 0 =>
          /\ name \in DOMAIN losses
          /\ losses[name]
               = (IF name \in DOMAIN losses0 THEN losses0[name] ELSE 0) + loss_total)

\* Two calls with a positive loss each were passed a mapping that had another
\* entry and none for the component.
C9_Witness ==
    /\ n_passed = 2
    /\ losses_passed
    /\ name \notin DOMAIN losses0
    /\ "ner" \in DOMAIN losses0
    /\ loss > 0
    /\ loss_total > loss
    /\ losses[name] = loss_total

\* C10: in each update call the forward pass, the loss computation and the
\* backward closure (exactly once, with that call's gradient) happen in this
\* order, and the optimizer step follows if and only if sgd was supplied.
C10_UpdateStepOrder ==
    op = "update" =>
        LET fns == [k \in 1..Len(calls) |-> calls[k].fn]
        IN  /\ fns = <<"begin_update", "get_loss", "backprop_scores">>
                     \o (IF sgd THEN <<"finish_update">> ELSE <<>>)
            /\ calls[3].arg = d_scores

====
